---- MODULE Spec2Model ----
(***************************************************************************)
(* A model of chatbothealth.py: the FAQ store (load_faq), the text         *)
(* normaliser (LemNormalize), the TF-IDF matcher (faq_response), the       *)
(* intent router (handle_user_message), the three live-data fetchers and   *)
(* the two Flask endpoints (/get, /whatsapp).                              *)
(*                                                                         *)
(* Text is a sequence of one-character strings, so that case folding,      *)
(* stripping, splitting, substring tests and the two regular expressions   *)
(* are computed character by character as Python computes them.            *)
(***************************************************************************)
EXTENDS Integers, Sequences, FiniteSets, TLC

\* ------------------------------------------------------------------ bounds
\* Longest FAQ source, in lines, that the load specification enumerates.
MaxLines == 3
\* Longest message, in words of MessageWords, that a request may carry.
MaxWords == 2
\* Requests the server specification serves in one behaviour.
MaxRequests == 2
\* Most question/answer pairs of a corpus that faq_response is called on directly.
MaxPairs == 2

\* -------------------------------------------------------------- characters
UpperChars == <<"A","B","C","D","E","F","G","H","I","J","K","L","M","N","O","P","Q","R","S","T","U","V","W","X","Y","Z">>
LowerChars == <<"a","b","c","d","e","f","g","h","i","j","k","l","m","n","o","p","q","r","s","t","u","v","w","x","y","z">>
Digits == {"0","1","2","3","4","5","6","7","8","9"}
\* str.split() and str.strip() without arguments act on whitespace.
Whitespace == {" ", "\t", "\n", "\r"}
\* string.punctuation (its backquote is left out: no text of the model holds it)
Punctuation ==
    {"!","\"","#","$","%","&","'","(",")","*","+",",","-",".","/",":",";",
     "<","=",">","?","@","[","\\","]","^","_","{","|","}","~"}

Range(s) == {s[i] : i \in 1..Len(s)}

\* str.lower() on one character
LowerChar(c) ==
    IF \E i \in 1..Len(UpperChars) : UpperChars[i] = c
    THEN LowerChars[CHOOSE i \in 1..Len(UpperChars) : UpperChars[i] = c]
    ELSE c

\* str.lower()
StrLower(s) == [i \in 1..Len(s) |-> LowerChar(s[i])]

\* str.strip()
StrStrip(s) ==
    LET keep == {i \in 1..Len(s) : s[i] \notin Whitespace}
    IN  IF keep = {} THEN <<>>
        ELSE LET lo == CHOOSE i \in keep : \A j \in keep : i <= j
                 hi == CHOOSE i \in keep : \A j \in keep : j <= i
             IN  SubSeq(s, lo, hi)

\* `sub in s`
Contains(sub, s) ==
    \E i \in 1..(Len(s) - Len(sub) + 1) : SubSeq(s, i, i + Len(sub) - 1) = sub

\* str.replace(old, ""): every non-overlapping occurrence, left to right
RECURSIVE StrRemoveAll(_, _)
StrRemoveAll(s, old) ==
    IF Len(s) < Len(old) THEN s
    ELSE IF SubSeq(s, 1, Len(old)) = old
         THEN StrRemoveAll(SubSeq(s, Len(old) + 1, Len(s)), old)
         ELSE <<s[1]>> \o StrRemoveAll(Tail(s), old)

\* str.split(): the maximal runs of non-whitespace characters, in order
RECURSIVE SplitFrom(_, _, _, _)
SplitFrom(s, i, cur, acc) ==
    IF i > Len(s) THEN (IF cur = <<>> THEN acc ELSE Append(acc, cur))
    ELSE IF s[i] \in Whitespace
         THEN SplitFrom(s, i + 1, <<>>, IF cur = <<>> THEN acc ELSE Append(acc, cur))
         ELSE SplitFrom(s, i + 1, Append(cur, s[i]), acc)

StrSplit(s) == SplitFrom(s, 1, <<>>, <<>>)

\* " ".join(words)
RECURSIVE JoinWords(_)
JoinWords(ws) ==
    IF ws = <<>> THEN <<>>
    ELSE IF Len(ws) = 1 THEN ws[1]
    ELSE ws[1] \o <<" ">> \o JoinWords(Tail(ws))

\* ---------------------------------------------------------------- load_faq
\* The FAQ source on disk: absent, or a sequence of lines.
NoFile == [exists |-> FALSE, lines |-> <<>>]
FileOf(ls) == [exists |-> TRUE, lines |-> ls]

MarkQ == <<"Q",":">>
MarkA == <<"A",":">>

\* lines = [line.strip() for line in f if line.strip()]
NonBlankLines(ls) ==
    LET stripped == [i \in 1..Len(ls) |-> StrStrip(ls[i])]
    IN  SelectSeq(stripped, LAMBDA l : l # <<>>)

\* lines[i].replace("Q:", "").strip().lower()
QuestionOfLine(l) == StrLower(StrStrip(StrRemoveAll(l, MarkQ)))

\* lines[i + 1].replace("A:", "").strip()
AnswerOfLine(l) == StrStrip(StrRemoveAll(l, MarkA))

\* load_faq(filepath): the (question, answer) pairs of the source
load_faq(file) ==
    IF ~file.exists THEN <<>>
    ELSE LET lines == NonBlankLines(file.lines)
         IN  [k \in 1..(Len(lines) \div 2) |->
                 <<QuestionOfLine(lines[2 * k - 1]), AnswerOfLine(lines[2 * k])>>]

\* questions = [q for q, _ in faq_pairs]; answers = [a for _, a in faq_pairs]
QuestionsOf(pairs) == [k \in 1..Len(pairs) |-> pairs[k][1]]
AnswersOf(pairs) == [k \in 1..Len(pairs) |-> pairs[k][2]]

\* ------------------------------------------------------------ LemNormalize
\* Mutant of RemovePunc: the translation table is not applied.
RemovePuncSkipped(s) == s

\* text.translate(remove_punc_dict): every punctuation character deleted
RemovePunc(s) == SelectSeq(s, LAMBDA c : c \notin Punctuation)

\* lemmer.lemmatize(token): WordNet's noun lemma, here for the plurals that the
\* model's texts hold; every other token of the model is its own lemma.
Lemmatize(tok) ==
    CASE tok = <<"s","y","m","p","t","o","m","s">> -> <<"s","y","m","p","t","o","m">>
      [] tok = <<"v","a","c","c","i","n","e","s">> -> <<"v","a","c","c","i","n","e">>
      [] tok = <<"s","l","o","t","s">> -> <<"s","l","o","t">>
      [] tok = <<"f","e","v","e","r","s">> -> <<"f","e","v","e","r">>
      [] OTHER -> tok

LemTokens(tokens) == [i \in 1..Len(tokens) |-> Lemmatize(tokens[i])]

\* nltk.word_tokenize on lower-case text without punctuation separates the
\* words at whitespace.
LemNormalize(text) == LemTokens(StrSplit(RemovePunc(StrLower(text))))

\* The words of sklearn's ENGLISH_STOP_WORDS that the model's texts hold.
StopWords ==
    {<<"w","h","a","t">>, <<"i","s">>, <<"i","t">>, <<"t","h","e">>, <<"a">>, <<"o","f">>, <<"h","o","w">>, <<"a","r","e">>,
     <<"y","o","u">>, <<"w","h","o">>, <<"i">>, <<"d","o">>, <<"t","o">>, <<"a","n","d">>, <<"i","n">>, <<"f","o","r">>}

\* TfidfVectorizer(tokenizer=LemNormalize, stop_words='english').build_analyzer():
\* lower-case, tokenize, drop the stop words (unigrams).
Analyze(doc) == SelectSeq(LemNormalize(StrLower(doc)), LAMBDA t : t \notin StopWords)

\* ------------------------------------------------------------------ TF-IDF
\* Reals are fixed point: idf in thousandths, unit vectors in thousandths,
\* similarity scores in millionths.
Milli == 10 * 10 * 10
Micro == Milli * Milli

\* ln(k) in millionths, k = 1..12
LnMicro == <<0, 693147, 1098612, 1386294, 1609438, 1791759,
             1945910, 2079442, 2197225, 2302585, 2397895, 2484907>>

\* the largest r with r * r <= x
RECURSIVE ISqrtBetween(_, _, _)
ISqrtBetween(x, lo, hi) ==
    IF lo >= hi THEN lo
    ELSE LET mid == (lo + hi + 1) \div 2
         IN  IF mid * mid <= x THEN ISqrtBetween(x, mid, hi)
             ELSE ISqrtBetween(x, lo, mid - 1)

ISqrt(x) == ISqrtBetween(x, 0, 46340)

RECURSIVE SumOver(_, _)
SumOver(f, dom) ==
    IF dom = {} THEN 0
    ELSE LET t == CHOOSE u \in dom : TRUE
         IN  f[t] + SumOver(f, dom \ {t})

\* CountVectorizer, on the analysed documents toks[i] = Analyze(docs[i]):
\* the vocabulary, and how often term t occurs in document i
Vocabulary(toks) == UNION {Range(toks[i]) : i \in 1..Len(toks)}

TermCount(tok, t) == Cardinality({i \in 1..Len(tok) : tok[i] = t})

\* TfidfTransformer(smooth_idf=True): idf(t) = ln((1 + n) / (1 + df(t))) + 1
DocFreq(toks, t) == Cardinality({i \in 1..Len(toks) : t \in Range(toks[i])})
IdfMilli(toks, t) ==
    (LnMicro[1 + Len(toks)] - LnMicro[1 + DocFreq(toks, t)]) \div Milli + Milli

\* sklearn.preprocessing.normalize(norm='l2'): a zero row stays zero
L2Normalize(v, vocab) ==
    LET norm == ISqrt(SumOver([t \in vocab |-> v[t] * v[t]], vocab))
    IN  IF norm = 0 THEN v ELSE [t \in vocab |-> (v[t] * Milli) \div norm]

\* TfidfVec.fit_transform(docs): per document, tf * idf, l2-normalised
TfidfRows(toks) ==
    LET vocab == Vocabulary(toks)
        idf == [t \in vocab |-> IdfMilli(toks, t)]
    IN  [i \in 1..Len(toks) |->
            L2Normalize([t \in vocab |-> TermCount(toks[i], t) * idf[t]], vocab)]

\* cosine_similarity(tfidf[-1], tfidf[:-1])[0]: the rows are normalised again
\* and the last one is multiplied with each of the others.
Sims(toks) ==
    LET vocab == Vocabulary(toks)
        rows == TfidfRows(toks)
        unit == [i \in 1..Len(toks) |-> L2Normalize(rows[i], vocab)]
    IN  [i \in 1..(Len(toks) - 1) |->
            SumOver([t \in vocab |-> unit[Len(toks)][t] * unit[i][t]], vocab)]

\* Mutant of ArgsortLast: sims.argsort()[0][0], the first index of the
\* ascending argsort, which is a least similar question.
ArgsortFirst(sims) ==
    {i \in 1..Len(sims) : \A j \in 1..Len(sims) : sims[i] <= sims[j]}

\* sims.argsort()[0][-1]: the last index of an ascending argsort. numpy's
\* default sort is not stable, so among equal largest scores the index is
\* whichever the build's sort leaves last.
ArgsortLast(sims) ==
    {i \in 1..Len(sims) : \A j \in 1..Len(sims) : sims[j] <= sims[i]}

\* --------------------------------------------------------------- faq_response
\* threshold: float = 0.35, in millionths
DefaultThreshold == 350000

NoMatch == [status |-> "none", idx |-> 0, score |-> 0, text |-> <<>>, sims |-> <<>>]
Raised == [status |-> "raise", idx |-> 0, score |-> 0, text |-> <<>>, sims |-> <<>>]

\* Mutant of BelowThreshold: score <= threshold.
AtOrBelowThreshold(score, threshold) == score <= threshold

\* score < threshold
BelowThreshold(score, threshold) == score < threshold

\* faq_response(user_text, threshold) over the corpus (qs, as): the outcomes the
\* call can have. "none" is None, "answer" is answers[idx], "raise" is the
\* ValueError of fit_transform on an empty vocabulary. An outcome records the
\* call's locals sims, idx and score with what it returns (text).
faq_response(qs, as, user_text, threshold) ==
    IF qs = <<>> THEN {NoMatch}
    ELSE LET text == StrStrip(StrLower(user_text))
             docs == Append(qs, text)
             toks == [i \in 1..Len(docs) |-> Analyze(docs[i])]
         IN  IF Vocabulary(toks) = {} THEN {Raised}
             ELSE LET sims == Sims(toks)
                  IN  {IF BelowThreshold(sims[idx], threshold)
                       THEN [status |-> "none", idx |-> idx, score |-> sims[idx],
                             text |-> <<>>, sims |-> sims]
                       ELSE [status |-> "answer", idx |-> idx, score |-> sims[idx],
                             text |-> as[idx], sims |-> sims] : idx \in ArgsortLast(sims)}

\* ------------------------------------------------------------- maybe_greet
GREET_IN == {<<"h","e","l","l","o">>, <<"h","i">>, <<"h","e","y">>, <<"n","a","m","a","s","t","e">>, <<"w","h","a","s","s","u","p">>, <<"h","o","w"," ","a","r","e"," ","y","o","u","?">>}
GREET_OUT == {"Hello!", "Hi there!", "Hey!", "Namaste!"}

\* maybe_greet(txt): the greetings random.choice may return, {} for None
maybe_greet(txt) ==
    LET words == StrSplit(txt)
    IN  IF \E i \in 1..Len(words) : StrLower(words[i]) \in GREET_IN
        THEN GREET_OUT
        ELSE {}

\* ------------------------------------------------------- regular expressions
\* \w
IsWordChar(c) == c \in Range(UpperChars) \cup Range(LowerChars) \cup Digits \cup {"_"}

\* \b before position p (p = Len + 1: the end of the text)
WordBoundary(text, p) ==
    LET before == p > 1 /\ IsWordChar(text[p - 1])
        after == p <= Len(text) /\ IsWordChar(text[p])
    IN  before # after

\* The positions where a pattern of digits and literal "-" (given as a template
\* whose "d" stands for \d) matches between two \b.
MatchesAt(text, template, p) ==
    /\ p + Len(template) - 1 <= Len(text)
    /\ \A k \in 1..Len(template) :
          IF template[k] = "d" THEN text[p + k - 1] \in Digits
          ELSE text[p + k - 1] = template[k]
    /\ WordBoundary(text, p)
    /\ WordBoundary(text, p + Len(template))

\* re.search(pattern, text): group(1) of the leftmost match, <<>> for None
ReSearch(text, template) ==
    LET hits == {p \in 1..Len(text) : MatchesAt(text, template, p)}
    IN  IF hits = {} THEN <<>>
        ELSE LET p == CHOOSE q \in hits : \A r \in hits : q <= r
             IN  SubSeq(text, p, p + Len(template) - 1)

\* r"\b(\d{6})\b" and r"\b(\d{2}-\d{2}-\d{4})\b"
PinPattern == <<"d","d","d","d","d","d">>
DatePattern == <<"d","d","-","d","d","-","d","d","d","d">>

\* ----------------------------------------------------- handle_user_message
\* A request's message as Python sees it: a str, or another JSON value.
\* truthy is bool(value).
StrMsg(s) == [type |-> "str", str |-> s, truthy |-> s # <<>>]
NoneMsg == [type |-> "none", str |-> <<>>, truthy |-> FALSE]
OtherMsg(t, b) == [type |-> t, str |-> <<>>, truthy |-> b]

\* "covid" in text or "corona" in text
CovidTrigger(text) == Contains(<<"c","o","v","i","d">>, text) \/ Contains(<<"c","o","r","o","n","a">>, text)

\* "who" in text and ("outbreak" in text or "news" in text or "alert" in text)
WhoTrigger(text) ==
    /\ Contains(<<"w","h","o">>, text)
    /\ \/ Contains(<<"o","u","t","b","r","e","a","k">>, text)
       \/ Contains(<<"n","e","w","s">>, text)
       \/ Contains(<<"a","l","e","r","t">>, text)

\* ("vaccination" in text or "vaccine" in text) and
\* ("slot" in text or "available" in text or "pin" in text)
SlotTrigger(text) ==
    /\ Contains(<<"v","a","c","c","i","n","a","t","i","o","n">>, text) \/ Contains(<<"v","a","c","c","i","n","e">>, text)
    /\ \/ Contains(<<"s","l","o","t">>, text)
       \/ Contains(<<"a","v","a","i","l","a","b","l","e">>, text)
       \/ Contains(<<"p","i","n">>, text)

\* text = user_msg.lower().strip()
TextOf(m) == StrStrip(StrLower(m.str))

\* Mutant of Route: the covid/corona test is made before the greeting test.
RouteCovidFirst(m) ==
    IF ~m.truthy THEN "empty"
    ELSE IF m.type # "str" THEN "raise"
    ELSE IF CovidTrigger(TextOf(m)) THEN "covid"
    ELSE IF maybe_greet(m.str) # {} THEN "greeting"
    ELSE IF WhoTrigger(TextOf(m)) THEN "who"
    ELSE IF SlotTrigger(TextOf(m))
         THEN IF /\ ReSearch(TextOf(m), PinPattern) # <<>>
                 /\ ReSearch(TextOf(m), DatePattern) # <<>>
              THEN "slots" ELSE "hint"
    ELSE "faq"

\* The branch of handle_user_message that a message takes, top to bottom.
\* "raise" is the AttributeError of txt.split() on a value that is no str.
Route(m) ==
    IF ~m.truthy THEN "empty"
    ELSE IF m.type # "str" THEN "raise"
    ELSE IF maybe_greet(m.str) # {} THEN "greeting"
    ELSE LET text == TextOf(m)
         IN  IF CovidTrigger(text) THEN "covid"
             ELSE IF WhoTrigger(text) THEN "who"
             ELSE IF SlotTrigger(text)
                  THEN IF /\ ReSearch(text, PinPattern) # <<>>
                          /\ ReSearch(text, DatePattern) # <<>>
                       THEN "slots" ELSE "hint"
             ELSE "faq"

\* ----------------------------------------------------------------- replies
\* A reply is the text a handler returns: one of the fixed strings (fixed), an
\* FAQ answer (text), or a rendered template (data: the values put into it,
\* when: the rendered last-updated time as <<day of the epoch, hour, minute>>).
MkReply(k, f, t, d, w) == [kind |-> k, fixed |-> f, text |-> t, data |-> d, when |-> w]
Fixed(k, f) == MkReply(k, f, <<>>, <<>>, <<>>)
NoReply == Fixed("none", "")

PromptReply == Fixed("prompt", "Please type your question.")
GreetSuffix == " Ask me about symptoms, prevention, vaccines, or outbreaks."
GreetingReply(g) == MkReply("greeting", GreetSuffix, <<>>, <<g>>, <<>>)
HintReply ==
    Fixed("hint", "To check vaccination slots, send: 'Check slots PINCODE DATE' (e.g., 'Check slots 700001 31-08-2025').")
ApologyReply ==
    Fixed("apology", "Sorry, I don't have that information yet. Please consult a healthcare professional.")
FaqReply(a) == MkReply("faq", "", a, <<>>, <<>>)
CovidUnavailable == Fixed("covid_unavailable", "Live COVID update is temporarily unavailable.")
WhoUnavailable == Fixed("who_unavailable", "WHO outbreak feed is unavailable right now.")
WhoNoItems == Fixed("who_none", "No current outbreak items from WHO.")
SlotsUnavailable == Fixed("slots_unavailable", "Vaccination slot service is temporarily unavailable.")
SlotsNone == Fixed("slots_none", "No vaccination slots found for the given PIN and date.")

\* ------------------------------------------------------------ HTTP responses
\* What requests.get(url, headers=USER_AGENT, timeout=TIMEOUT) can do: raise
\* (err: a connection error, the timeout), or return a response with a status and a body. A body is described by
\* its shape, its top-level fields, one number and its list of items.
Absent == "<absent>"
MkBody(sh, fs, n, its) == [shape |-> sh, fields |-> fs, num |-> n, items |-> its]
NoBody == MkBody("none", <<>>, 0, <<>>)
MkResp(e, st, b) == [err |-> e, status |-> st, body |-> b]
NoResp == MkResp("unsent", 0, NoBody)

\* j.get(key, default) on a field that may be absent
GetOr(v, default) == IF v = Absent THEN default ELSE v

\* datetime.fromtimestamp(updated/1000).strftime("%d-%b-%Y %H:%M"), in UTC:
\* the day of the epoch, the hour and the minute
RenderWhen(ms) ==
    LET sec == ms \div 1000
    IN  <<sec \div 86400, (sec % 86400) \div 3600, (sec % 3600) \div 60>>

\* Mutant of get_covid_update_india: r.status_code is not looked at.
get_covid_update_india_any_status(resp) ==
    IF resp.err # "none" THEN CovidUnavailable
    ELSE IF resp.body.shape # "object" THEN CovidUnavailable
    ELSE IF resp.body.fields[4] \in {"text", "huge"} THEN CovidUnavailable
    ELSE MkReply("covid_report", "India COVID Update:", <<>>,
                 <<GetOr(resp.body.fields[1], "N/A"), GetOr(resp.body.fields[2], "N/A"),
                   GetOr(resp.body.fields[3], "N/A"),
                   IF resp.body.fields[4] = "number" /\ resp.body.num # 0
                   THEN "date" ELSE "N/A">>,
                 IF resp.body.fields[4] = "number" /\ resp.body.num # 0
                 THEN RenderWhen(resp.body.num) ELSE <<>>)

\* get_covid_update_india(): body.fields = <<todayCases, todayDeaths, cases,
\* kind of "updated">>, body.num = updated when it is a number
get_covid_update_india(resp) ==
    IF resp.err # "none" THEN CovidUnavailable
    ELSE IF resp.status # 200 THEN CovidUnavailable
    ELSE IF resp.body.shape # "object" THEN CovidUnavailable
    ELSE IF resp.body.fields[4] \in {"text", "huge"} THEN CovidUnavailable
    ELSE MkReply("covid_report", "India COVID Update:", <<>>,
                 <<GetOr(resp.body.fields[1], "N/A"), GetOr(resp.body.fields[2], "N/A"),
                   GetOr(resp.body.fields[3], "N/A"),
                   IF resp.body.fields[4] = "number" /\ resp.body.num # 0
                   THEN "date" ELSE "N/A">>,
                 IF resp.body.fields[4] = "number" /\ resp.body.num # 0
                 THEN RenderWhen(resp.body.num) ELSE <<>>)

\* get_who_outbreak_headlines(limit=5): body.items = the <item> elements, each
\* <<title text>>, Absent for no <title>, "" for an empty one
WhoLimit == 5

Take(s, n) == SubSeq(s, 1, IF Len(s) < n THEN Len(s) ELSE n)

WhoTitles(items) ==
    LET first == Take(items, WhoLimit)
        kept == SelectSeq(first, LAMBDA it : it[1] # Absent /\ it[1] # "")
    IN  [i \in 1..Len(kept) |-> kept[i][1]]

get_who_outbreak_headlines(resp) ==
    IF resp.err # "none" THEN WhoUnavailable
    ELSE IF resp.status # 200 THEN WhoUnavailable
    ELSE IF resp.body.shape = "notxml" THEN WhoUnavailable
    ELSE IF resp.body.shape # "channel" THEN WhoNoItems
    ELSE IF resp.body.items = <<>> THEN WhoNoItems
    ELSE IF WhoTitles(resp.body.items) = <<>> THEN WhoNoItems
    ELSE MkReply("who_report", "WHO Disease Outbreak News:", <<>>,
                 WhoTitles(resp.body.items), <<>>)

\* get_cowin_slots_by_pin(pincode, date): body.fields = <<kind of "sessions">>,
\* body.items = the session records, each <<name, vaccine, min_age_limit,
\* available_capacity_dose1, available_capacity_dose2>>, or NotADict
SlotLimit == 10
NotADict == <<"<not a dict>">>

RECURSIVE Flatten(_)
Flatten(ss) == IF ss = <<>> THEN <<>> ELSE Head(ss) \o Flatten(Tail(ss))

SlotLine(sess) ==
    <<GetOr(sess[1], "Center"), GetOr(sess[2], "Vaccine"), GetOr(sess[3], "-"),
      GetOr(sess[4], "-"), GetOr(sess[5], "-")>>

get_cowin_slots_by_pin(pincode, date, resp) ==
    IF resp.err # "none" THEN SlotsUnavailable
    ELSE IF resp.status # 200 THEN SlotsUnavailable
    ELSE IF resp.body.shape # "object" THEN SlotsUnavailable
    ELSE IF resp.body.fields[1] \in {Absent, "null"} THEN SlotsNone
    ELSE IF resp.body.fields[1] = "text" THEN SlotsUnavailable
    ELSE IF resp.body.items = <<>> THEN SlotsNone
    ELSE IF \E i \in 1..Len(Take(resp.body.items, SlotLimit)) : resp.body.items[i] = NotADict
         THEN SlotsUnavailable
    ELSE MkReply("slots_report", "Available Vaccination Slots:", <<>>,
                 Flatten([i \in 1..Len(Take(resp.body.items, SlotLimit)) |->
                             SlotLine(resp.body.items[i])]), <<>>)

\* ------------------------------------------------------------------- inputs
\* The responses each outbound dependency may give.
Failures(b) ==
    {MkResp("connection", 0, NoBody), MkResp("timeout", 0, NoBody),
     MkResp("none", 500, b), MkResp("none", 404, NoBody)}

CovidFull == MkBody("object", <<"120", "3", "45000000", "number">>, 90061000, <<>>)
CovidBodies ==
    {CovidFull,
     MkBody("notjson", <<>>, 0, <<>>),
     MkBody("list", <<>>, 0, <<>>),
     MkBody("object", <<Absent, Absent, Absent, Absent>>, 0, <<>>),
     MkBody("object", <<"120", Absent, "45000000", "number">>, 0, <<>>),
     MkBody("object", <<"120", "3", "45000000", "text">>, 0, <<>>),
     MkBody("object", <<"120", "3", "45000000", "huge">>, 0, <<>>)}
CovidResponses == Failures(CovidFull) \cup {MkResp("none", 200, b) : b \in CovidBodies}

WhoFeed(titles) == MkBody("channel", <<>>, 0, [i \in 1..Len(titles) |-> <<titles[i]>>])
WhoBodies ==
    {MkBody("notxml", <<>>, 0, <<>>),
     MkBody("nochannel", <<>>, 0, <<>>),
     WhoFeed(<<>>),
     WhoFeed(<<Absent, "">>),
     WhoFeed(<<"Cholera", Absent, "Mpox">>),
     WhoFeed(<<"t1", "t2", "t3", "t4", "t5", "t6">>),
     WhoFeed(<<Absent, "", Absent, "", Absent, "t6">>)}
WhoResponses == Failures(WhoFeed(<<"Cholera">>)) \cup {MkResp("none", 200, b) : b \in WhoBodies}

Session(n) == <<"Center A", "COVAXIN", "18", "5", n>>
Sessions(its) == MkBody("object", <<"list">>, 0, its)
CowinBodies ==
    {MkBody("notjson", <<>>, 0, <<>>),
     MkBody("list", <<>>, 0, <<>>),
     MkBody("object", <<Absent>>, 0, <<>>),
     MkBody("object", <<"null">>, 0, <<>>),
     MkBody("object", <<"text">>, 0, <<>>),
     Sessions(<<>>),
     Sessions(<<Session("1")>>),
     Sessions(<<<<Absent, Absent, Absent, Absent, Absent>>, Session("2")>>),
     Sessions(<<Session("1"), NotADict>>),
     Sessions([i \in 1..11 |-> IF i = 11 THEN NotADict ELSE Session("7")])}
CowinResponses ==
    Failures(Sessions(<<Session("1")>>)) \cup {MkResp("none", 200, b) : b \in CowinBodies}

\* The words a generated message is made of, and the messages of the
\* specification's own examples.
MessageWords ==
    {<<"H","i">>, <<"c","o","v","i","d">>, <<"w","h","o">>, <<"n","e","w","s">>, <<"v","a","c","c","i","n","e">>, <<"s","l","o","t">>, <<"f","e","v","e","r">>}
SampleMessages ==
    {<<"h","i"," ","c","o","v","i","d">>, <<"C","h","e","c","k"," ","s","l","o","t","s"," ","7","0","0","0","0","1"," ","3","1","-","0","8","-","2","0","2","5">>, <<"C","h","e","c","k"," ","s","l","o","t","s">>,
     <<"V","a","c","c","i","n","e"," ","s","l","o","t"," ","7","0","0","0","0","1"," ","3","1","-","0","8","-","2","0","2","5">>, <<"v","a","c","c","i","n","e"," ","p","i","n"," ","7","0","0","0","0","1","1"," ","3","1","-","0","8","-","2","0","2","5">>,
     <<"c","o","v","i","d"," ","w","h","o"," ","n","e","w","s">>, <<" "," ">>, <<"t","h","e">>, <<"W","h","a","t"," ","i","s"," ","F","E","V","E","R","?","!">>}
WordSeqs(ws, n) == UNION {[1..k -> ws] : k \in 0..n}
Messages == {JoinWords(w) : w \in WordSeqs(MessageWords, MaxWords)} \cup SampleMessages

\* The bodies POSTed to /get: JSON that is an object (with or without a
\* "message"), JSON that is no object, or no JSON at all (then the form is read).
MkPayload(j, hm, m, hf, f) ==
    [json |-> j, has_message |-> hm, message |-> m, has_form |-> hf, form |-> f]
JsonMessages ==
    {StrMsg(m) : m \in Messages}
    \cup {NoneMsg, OtherMsg("int", FALSE), OtherMsg("int", TRUE),
          OtherMsg("list", FALSE), OtherMsg("list", TRUE)}
Payloads ==
    {MkPayload("object", TRUE, m, FALSE, <<>>) : m \in JsonMessages}
    \cup {MkPayload("object", FALSE, NoneMsg, FALSE, <<>>),
          MkPayload("nonobject", FALSE, NoneMsg, FALSE, <<>>),
          MkPayload("invalid", FALSE, NoneMsg, FALSE, <<>>)}
    \cup {MkPayload("invalid", FALSE, NoneMsg, TRUE, f) : f \in SampleMessages}

\* The forms POSTed to /whatsapp: with a Body, or without.
Forms == {[has_body |-> TRUE, body |-> m] : m \in Messages}
         \cup {[has_body |-> FALSE, body |-> <<>>]}

\* The FAQ sources the server is started on.
ServerFiles ==
    {NoFile,
     FileOf(<<<<"Q",":"," ","W","h","a","t"," ","i","s"," ","F","e","v","e","r","?">>, <<"A",":"," ","H","i","g","h"," ","t","e","m","p","e","r","a","t","u","r","e",".">>,
              <<"Q",":"," ","F","e","v","e","r"," ","s","y","m","p","t","o","m","s">>, <<"A",":"," ","C","h","i","l","l","s",".">>>>),
     FileOf(<<<<"Q",":"," ","f","e","v","e","r">>, <<"A",":"," ","f","i","r","s","t">>, <<>>, <<"Q",":"," ","F","e","v","e","r","!">>, <<"A",":"," ","s","e","c","o","n","d">>>>),
     FileOf(<<<<"W","h","a","t"," ","i","s"," ","i","t">>, <<"A"," ","t","h","i","n","g",".">>>>),
     FileOf(<<<<"Q",":"," ","f","e","v","e","r">>, <<"A",":">>>>)}

\* -------------------------------------------------------------------- state
VARIABLES
    faq_file,     \* the FAQ source on disk (health_faq.txt)
    faq_pairs,    \* module global faq_pairs
    questions,    \* module global questions
    answers,      \* module global answers
    pc,           \* where the process is: boot, idle, route, fetch_*, reply, raise
    endpoint,     \* the route serving the current request
    msg,          \* the message handed to handle_user_message
    rule,         \* the branch of handle_user_message taken
    invoked,      \* the handlers called while serving the current request
    call_args,    \* the arguments of the pending fetcher call
    resp,         \* what the outbound GET of the current request gave
    gets,         \* outbound GETs issued while serving the current request
    ans,          \* handle_user_message's local ans: what faq_response gave
    reply,        \* the text handle_user_message returned
    served,       \* requests answered so far
    fq_query,     \* faq_response called on its own: user_text
    fq_threshold, \* ... its threshold
    fq_out        \* ... its outcome

corpus == <<faq_pairs, questions, answers>>
request == <<endpoint, msg, rule, invoked, call_args, resp, gets, ans, reply>>
direct == <<fq_query, fq_threshold, fq_out>>
vars == <<faq_file, corpus, pc, request, served, direct>>

NoRequest ==
    /\ endpoint = "none"
    /\ msg = NoneMsg
    /\ rule = "none"
    /\ invoked = {}
    /\ call_args = <<>>
    /\ resp = NoResp
    /\ gets = 0
    /\ ans = NoMatch
    /\ reply = NoReply

NoDirect ==
    /\ fq_query = <<>>
    /\ fq_threshold = DefaultThreshold
    /\ fq_out = NoMatch

\* ------------------------------------------------------------ module import
\* faq_pairs = load_faq(); questions = ...; answers = ...
LoadFaq ==
    /\ pc = "boot"
    /\ faq_pairs' = load_faq(faq_file)
    /\ questions' = QuestionsOf(load_faq(faq_file))
    /\ answers' = AnswersOf(load_faq(faq_file))
    /\ pc' = "idle"
    /\ UNCHANGED <<faq_file, request, served, direct>>

\* ---------------------------------------------------------------- endpoints
\* get_reply(): payload = request.get_json(force=True);
\* msg = payload.get("message", ""); on any exception
\* msg = request.form.get("message", "")
get_reply_msg(p) ==
    IF p.json = "object"
    THEN IF p.has_message THEN p.message ELSE StrMsg(<<>>)
    ELSE IF p.has_form THEN StrMsg(p.form) ELSE StrMsg(<<>>)

\* whatsapp_reply(): user_message = request.form.get("Body", "")
whatsapp_reply_msg(f) == IF f.has_body THEN StrMsg(f.body) ELSE StrMsg(<<>>)

Accept(ep, m) ==
    /\ pc = "idle"
    /\ served < MaxRequests
    /\ endpoint' = ep
    /\ msg' = m
    /\ pc' = "route"
    /\ UNCHANGED <<faq_file, corpus, rule, invoked, call_args, resp, gets, ans, reply,
                   served, direct>>

GetReply == \E p \in Payloads : Accept("get", get_reply_msg(p))

WhatsappReply == \E f \in Forms : Accept("whatsapp", whatsapp_reply_msg(f))

\* ------------------------------------------------------ handle_user_message
\* Mutant of AfterFetcher: the covid branch does not return, and the message
\* is tested for the WHO branch as well.
AfterFetcherFallThrough(r, m) ==
    IF pc = "fetch_covid" /\ WhoTrigger(TextOf(m)) THEN "fetch_who" ELSE "reply"

\* `return fetcher()`: where control goes once the fetcher has returned
AfterFetcher(r, m) == "reply"

\* Mutant of CorpusAfter: questions.append(user_text) in place.
CorpusAfterAppend(qs, text) == Append(qs, text)

\* The corpus as the handlers leave it: faq_response builds questions +
\* [user_text] as a new list and assigns to no global.
CorpusAfter(qs, text) == qs

Returns(r, rep, inv) ==
    /\ rule' = r
    /\ reply' = rep
    /\ invoked' = inv
    /\ pc' = "reply"
    /\ UNCHANGED <<faq_file, corpus, endpoint, msg, call_args, resp, gets, ans, served,
                   direct>>

Calls(r, fetcher, args) ==
    /\ rule' = r
    /\ invoked' = {"maybe_greet", fetcher}
    /\ call_args' = args
    /\ pc' = "fetch_" \o r
    /\ UNCHANGED <<faq_file, corpus, endpoint, msg, resp, gets, ans, reply, served,
                   direct>>

HandleUserMessage ==
    /\ pc = "route"
    /\ \/ /\ Route(msg) = "empty"
          /\ Returns("empty", PromptReply, {})
       \/ /\ Route(msg) = "raise"
          /\ rule' = "raise"
          /\ invoked' = {"maybe_greet"}
          /\ pc' = "raise"
          /\ UNCHANGED <<faq_file, corpus, endpoint, msg, call_args, resp, gets, ans,
                         reply, served, direct>>
       \/ /\ Route(msg) = "greeting"
          /\ \E g \in maybe_greet(msg.str) :
                Returns("greeting", GreetingReply(g), {"maybe_greet"})
       \/ /\ Route(msg) = "covid"
          /\ Calls("covid", "get_covid_update_india", <<>>)
       \/ /\ Route(msg) = "who"
          /\ Calls("who", "get_who_outbreak_headlines", <<>>)
       \/ /\ Route(msg) = "slots"
          /\ Calls("slots", "get_cowin_slots_by_pin",
                   <<ReSearch(TextOf(msg), PinPattern), ReSearch(TextOf(msg), DatePattern)>>)
       \/ /\ Route(msg) = "hint"
          /\ Returns("hint", HintReply, {"maybe_greet"})
       \/ /\ Route(msg) = "faq"
          /\ \E o \in faq_response(questions, answers, TextOf(msg), DefaultThreshold) :
                /\ ans' = o
                /\ \/ /\ o.status = "answer" /\ o.text # <<>>
                      /\ rule' = "faq"
                      /\ reply' = FaqReply(o.text)
                      /\ pc' = "reply"
                      /\ questions' = CorpusAfter(questions, TextOf(msg))
                   \/ /\ o.status = "none" \/ (o.status = "answer" /\ o.text = <<>>)
                      /\ rule' = "apology"
                      /\ reply' = ApologyReply
                      /\ pc' = "reply"
                      /\ questions' = CorpusAfter(questions, TextOf(msg))
                   \/ /\ o.status = "raise"
                      /\ rule' = "raise"
                      /\ reply' = reply
                      /\ pc' = "raise"
                      /\ questions' = questions
          /\ invoked' = {"maybe_greet", "faq_response"}
          /\ UNCHANGED <<faq_file, faq_pairs, answers, endpoint, msg, call_args, resp,
                         gets, served, direct>>

\* ------------------------------------------------------------------ fetchers
Fetched(r, rep) ==
    /\ resp' = r
    /\ gets' = gets + 1
    /\ reply' = rep
    /\ pc' = AfterFetcher(rule, msg)
    /\ UNCHANGED <<faq_file, corpus, endpoint, msg, rule, invoked, call_args, ans,
                   served, direct>>

GetCovidUpdateIndia ==
    /\ pc = "fetch_covid"
    /\ \E r \in CovidResponses : Fetched(r, get_covid_update_india(r))

GetWhoOutbreakHeadlines ==
    /\ pc = "fetch_who"
    /\ \E r \in WhoResponses : Fetched(r, get_who_outbreak_headlines(r))

GetCowinSlotsByPin ==
    /\ pc = "fetch_slots"
    /\ \E r \in CowinResponses :
          Fetched(r, get_cowin_slots_by_pin(call_args[1], call_args[2], r))

\* ---------------------------------------------------------------- responses
ClearRequest ==
    /\ endpoint' = "none"
    /\ msg' = NoneMsg
    /\ rule' = "none"
    /\ invoked' = {}
    /\ call_args' = <<>>
    /\ resp' = NoResp
    /\ gets' = 0
    /\ ans' = NoMatch
    /\ reply' = NoReply

\* return jsonify({"reply": reply}) / return str(tw): the response is sent
Respond ==
    /\ pc = "reply"
    /\ pc' = "idle"
    /\ served' = served + 1
    /\ ClearRequest
    /\ UNCHANGED <<faq_file, corpus, direct>>

\* An exception that leaves the view function: Flask answers 500 and serves on
InternalServerError ==
    /\ pc = "raise"
    /\ pc' = "idle"
    /\ served' = served + 1
    /\ ClearRequest
    /\ UNCHANGED <<faq_file, corpus, direct>>

\* ------------------------------------------------------------ specifications
\* The server: started on one of ServerFiles, then serving requests.
Init ==
    /\ faq_file \in ServerFiles
    /\ faq_pairs = <<>>
    /\ questions = <<>>
    /\ answers = <<>>
    /\ pc = "boot"
    /\ served = 0
    /\ NoRequest
    /\ NoDirect

Next ==
    \/ LoadFaq
    \/ GetReply
    \/ WhatsappReply
    \/ HandleUserMessage
    \/ GetCovidUpdateIndia
    \/ GetWhoOutbreakHeadlines
    \/ GetCowinSlotsByPin
    \/ Respond
    \/ InternalServerError

Spec == Init /\ [][Next]_vars

\* Loading alone: every source of at most MaxLines lines of FaqLines, or none.
FaqLines ==
    {<<"Q",":"," ","W","h","a","t"," ","i","s"," ","F","e","v","e","r","?">>, <<"A",":"," ","R","e","s","t",".">>, <<" ">>, <<"A",":"," ","V","i","t","a","m","i","n"," ","A",":"," ","h","e","l","p","s">>,
     <<"H","o","w"," ","a","r","e"," ","y","o","u">>, <<"Q",":"," ","F","A","Q",":"," ","w","h","a","t">>}
LoadFiles == {NoFile} \cup {FileOf(ls) : ls \in WordSeqs(FaqLines, MaxLines)}

InitLoad ==
    /\ faq_file \in LoadFiles
    /\ faq_pairs = <<>>
    /\ questions = <<>>
    /\ answers = <<>>
    /\ pc = "boot"
    /\ served = 0
    /\ NoRequest
    /\ NoDirect

NextLoad == LoadFaq

SpecLoad == InitLoad /\ [][NextLoad]_vars

\* faq_response alone, as a function of the corpus, the text and the threshold:
\* the corpus is loaded from a source of at most MaxPairs pairs whose questions
\* are drawn from QuestionLines and whose k-th answer is AnswerLines[k].
QuestionLines == {<<"Q",":"," ","F","e","v","e","r">>, <<"Q",":"," ","f","e","v","e","r","!">>, <<"W","h","a","t"," ","i","s"," ","i","t","?">>, <<"Q",":"," ","C","o","v","i","d"," ","f","e","v","e","r">>}
AnswerLines == <<<<"A",":"," ","o","n","e">>, <<"A",":"," ","t","w","o">>, <<"A",":"," ","t","h","r","e","e">>, <<"A",":"," ","f","o","u","r">>>>
CorpusFile(qs) ==
    FileOf([k \in 1..(2 * Len(qs)) |->
               IF k % 2 = 1 THEN qs[(k + 1) \div 2] ELSE AnswerLines[k \div 2]])
CorpusFiles == {CorpusFile(qs) : qs \in WordSeqs(QuestionLines, MaxPairs)}

QueryWords == {<<"F","E","V","E","R">>, <<"c","o","v","i","d">>, <<"w","h","a","t">>, <<"i","s">>, <<"i","t","?">>}
SampleQueries == {<<"W","h","a","t"," ","i","s"," ","i","t">>, <<"F","e","v","e","r","!","!">>, <<"c","o","v","i","d",","," ","f","e","v","e","r">>, <<" ","C","o","v","i","d"," "," ","F","E","V","E","R",".">>}
FaqQueries == {JoinWords(w) : w \in WordSeqs(QueryWords, MaxWords)} \cup SampleQueries

\* The default threshold, and 1.0
Thresholds == {DefaultThreshold, Micro}

InitFaq ==
    /\ faq_file \in CorpusFiles
    /\ faq_pairs = load_faq(faq_file)
    /\ questions = QuestionsOf(load_faq(faq_file))
    /\ answers = AnswersOf(load_faq(faq_file))
    /\ pc = "faq_call"
    /\ served = 0
    /\ NoRequest
    /\ fq_query \in FaqQueries
    /\ fq_threshold \in Thresholds
    /\ fq_out = NoMatch

FaqResponseCall ==
    /\ pc = "faq_call"
    /\ fq_out' \in faq_response(questions, answers, fq_query, fq_threshold)
    /\ pc' = "faq_done"
    /\ UNCHANGED <<faq_file, corpus, request, served, fq_query, fq_threshold>>

NextFaq == FaqResponseCall

SpecFaq == InitFaq /\ [][NextFaq]_vars

\* ============================================================== the claims
\* ------------------------------------------------------------------- C9
HasPrefix(l, mark) == Len(l) >= Len(mark) /\ SubSeq(l, 1, Len(mark)) = mark
StripPrefix(l, mark) == IF HasPrefix(l, mark) THEN SubSeq(l, Len(mark) + 1, Len(l)) ELSE l

\* The lines of a source that are not blank, each without the white space
\* around it.
C9_Lines(file) ==
    LET kept == SelectSeq(file.lines, LAMBDA l : StrStrip(l) # <<>>)
    IN  [i \in 1..Len(kept) |-> StrStrip(kept[i])]

\* A well-formed source: question and answer lines alternate (a question line
\* may start with "Q:", an answer line with "A:"), with at most one trailing
\* unpaired line.
C9_WellFormed(file) ==
    /\ file.exists
    /\ \A i \in 1..(2 * (Len(C9_Lines(file)) \div 2)) :
          IF i % 2 = 1 THEN ~HasPrefix(C9_Lines(file)[i], MarkA)
          ELSE ~HasPrefix(C9_Lines(file)[i], MarkQ)

\* What the claim says load_faq returns: per pair, the question without its
\* "Q:" marker, lower-cased, and the answer without its "A:" marker, the rest of
\* its text as it is.
C9_Claimed(file) ==
    [k \in 1..(Len(C9_Lines(file)) \div 2) |->
        <<StrLower(StrStrip(StripPrefix(C9_Lines(file)[2 * k - 1], MarkQ))),
          StrStrip(StripPrefix(C9_Lines(file)[2 * k], MarkA))>>]

\* C9: load_faq on a well-formed source of N pairs returns exactly the N pairs
\* in source order, markers stripped, questions lower-cased, the answers'
\* remaining text unchanged; questions and answers have equal length and are
\* index-aligned; a missing file gives the empty sequence.
C9_LoadFaqAsClaimed ==
    pc = "idle" =>
        /\ Len(questions) = Len(answers)
        /\ ~faq_file.exists => faq_pairs = <<>>
        /\ C9_WellFormed(faq_file) =>
              /\ faq_pairs = C9_Claimed(faq_file)
              /\ questions = QuestionsOf(C9_Claimed(faq_file))
              /\ answers = AnswersOf(C9_Claimed(faq_file))

\* --------------------------------------------------------------- C5, C6, C7
\* Texts that are identical but for letter case and punctuation.
LettersOf(s) == SelectSeq(StrLower(s), LAMBDA c : c \notin Punctuation)

SameModCasePunct(a, b) == LettersOf(a) = LettersOf(b)

\* The direct call has returned, on a corpus and text with some vocabulary.
FqScored == pc = "faq_done" /\ questions # <<>> /\ fq_out.status # "raise"

Proportional(ta, tb) ==
    /\ Range(ta) = Range(tb)
    /\ \A t \in Range(ta) : \A u \in Range(ta) :
          TermCount(ta, t) * TermCount(tb, u) = TermCount(ta, u) * TermCount(tb, t)

C6_EqualIsNoMatchAsClaimed ==
    FqScored /\ fq_out.score = fq_threshold => fq_out.status = "none"

\* C6, amended: a best score equal to the threshold is a match (the answer at
\* the best index is returned); no match is reported exactly when the best
\* score is strictly below the threshold.
C6_EqualIsMatch ==
    FqScored =>
        /\ fq_out.idx \in 1..Len(questions)
        /\ Len(fq_out.sims) = Len(questions)
        /\ fq_out.score = fq_out.sims[fq_out.idx]
        /\ \A j \in 1..Len(questions) : fq_out.sims[j] <= fq_out.score
        /\ fq_out.score = fq_threshold =>
              fq_out.status = "answer" /\ fq_out.text = answers[fq_out.idx]
        /\ fq_out.status = "none" <=> fq_out.score < fq_threshold

C6_Witness ==
    /\ FqScored
    /\ fq_out.score = fq_threshold
    /\ fq_out.status = "answer"
    /\ fq_out.text = answers[fq_out.idx]

\* The stored questions that share the best score.
FqBest ==
    {i \in 1..Len(questions) : \A j \in 1..Len(questions) : fq_out.sims[j] <= fq_out.sims[i]}

\* C7 as claimed: among the questions that share the best score, the answer of
\* the smallest index is returned.
C7_FirstIndexWinsAsClaimed ==
    FqScored /\ fq_out.status = "answer" =>
        /\ LET best == FqBest
           IN  fq_out.idx = CHOOSE i \in best : \A j \in best : i <= j
        /\ fq_out.text = answers[fq_out.idx]

\* C7, amended: among the questions that share the best score, the answer of
\* one of them is returned, and the code does not fix which (the last entry of
\* an argsort that is not stable).
C7_SomeBestIndexWins ==
    FqScored /\ fq_out.status = "answer" =>
        /\ fq_out.idx \in FqBest
        /\ fq_out.text = answers[fq_out.idx]

\* Two questions share the best score and the answer of the second is returned.
C7_Witness ==
    /\ FqScored /\ fq_out.status = "answer"
    /\ LET best == FqBest
       IN  /\ Cardinality(best) >= 2
           /\ \E i \in best : i < fq_out.idx
           /\ \E i \in best : answers[i] # fq_out.text
    /\ fq_out.text = answers[fq_out.idx]

\* ------------------------------------------------------------------- C1
\* The triggers of the rules 1 to 5, in the order of the decision list.
C1_Trigger(k, m) ==
    CASE k = 1 -> ~m.truthy
      [] k = 2 -> m.type = "str" /\ maybe_greet(m.str) # {}
      [] k = 3 -> m.type = "str" /\ CovidTrigger(TextOf(m))
      [] k = 4 -> m.type = "str" /\ WhoTrigger(TextOf(m))
      [] k = 5 -> m.type = "str" /\ SlotTrigger(TextOf(m))

\* The first rule among 1 to 5 whose trigger holds; 6 when none does (the FAQ
\* match, then 7, the apology).
C1_First(m) ==
    IF \E k \in 1..5 : C1_Trigger(k, m)
    THEN CHOOSE k \in 1..5 : C1_Trigger(k, m) /\ \A j \in 1..(k - 1) : ~C1_Trigger(j, m)
    ELSE 6

C1_RuleNumber(r) ==
    CASE r = "empty" -> 1
      [] r = "greeting" -> 2
      [] r = "covid" -> 3
      [] r = "who" -> 4
      [] r \in {"slots", "hint"} -> 5
      [] r = "faq" -> 6
      [] r = "apology" -> 7
      [] OTHER -> 0

C1_HandlerRule(h) ==
    CASE h = "maybe_greet" -> 2
      [] h = "get_covid_update_india" -> 3
      [] h = "get_who_outbreak_headlines" -> 4
      [] h = "get_cowin_slots_by_pin" -> 5
      [] h = "faq_response" -> 6

C1_Kinds(r) ==
    CASE r = "empty" -> {"prompt"}
      [] r = "greeting" -> {"greeting"}
      [] r = "covid" -> {"covid_unavailable", "covid_report"}
      [] r = "who" -> {"who_unavailable", "who_none", "who_report"}
      [] r = "slots" -> {"slots_unavailable", "slots_none", "slots_report"}
      [] r = "hint" -> {"hint"}
      [] r = "faq" -> {"faq"}
      [] r = "apology" -> {"apology"}
      [] OTHER -> {}

HiCovid == StrMsg(<<"h","i"," ","c","o","v","i","d">>)

\* C1: the branch taken is the first rule, in the order empty input, greeting
\* token, covid/corona, who + news, vaccine + slot, FAQ match, apology, whose
\* trigger holds; the reply is that rule's; no handler of a later rule is
\* called; "hi covid" is greeted and never fetches; an empty message gets the
\* prompt on every corpus.
C1_FirstMatchWins ==
    /\ pc \in {"reply", "fetch_covid", "fetch_who", "fetch_slots"} =>
          /\ C1_RuleNumber(rule) =
                IF C1_First(msg) <= 5 THEN C1_First(msg)
                ELSE IF ans.status = "answer" /\ ans.text # <<>> THEN 6 ELSE 7
          /\ \A h \in invoked : C1_HandlerRule(h) <= C1_RuleNumber(rule)
          /\ pc = "reply" => reply.kind \in C1_Kinds(rule)
          /\ pc = "reply" /\ rule = "faq" => reply = FaqReply(ans.text)
          /\ pc = "reply" /\ ~msg.truthy => reply = PromptReply
          /\ msg = HiCovid =>
                rule = "greeting" /\ "get_covid_update_india" \notin invoked /\ gets = 0
    /\ pc = "raise" /\ msg.type = "str" =>
          C1_First(msg) = 6 /\ \A h \in invoked : C1_HandlerRule(h) <= 6

C1_Witness ==
    /\ pc = "reply"
    /\ msg = HiCovid
    /\ reply.kind = "greeting"
    /\ questions # <<>>

\* ------------------------------------------------------------------- C2
CheckSlotsFull == StrMsg(<<"C","h","e","c","k"," ","s","l","o","t","s"," ","7","0","0","0","0","1"," ","3","1","-","0","8","-","2","0","2","5">>)
CheckSlotsBare == StrMsg(<<"C","h","e","c","k"," ","s","l","o","t","s">>)

\* C2 as claimed: "Check slots 700001 31-08-2025" reaches the slot fetcher with
\* the postal code 700001 and the date 31-08-2025, and "Check slots" gets the
\* usage hint.
C2_CheckSlotsAsClaimed ==
    /\ msg = CheckSlotsFull /\ pc \in {"reply", "raise"} =>
          /\ rule = "slots"
          /\ "get_cowin_slots_by_pin" \in invoked
          /\ call_args = <<<<"7","0","0","0","0","1">>, <<"3","1","-","0","8","-","2","0","2","5">>>>
    /\ msg = CheckSlotsBare /\ pc \in {"reply", "raise"} =>
          pc = "reply" /\ reply = HintReply

\* ------------------------------------------------------------------- C3
\* C3 as claimed: no request makes handle_user_message raise.
C3_NeverRaises == pc # "raise"

\* ------------------------------------------------------------------- C4
C4_Unavailable(r) ==
    CASE r = "covid" -> CovidUnavailable
      [] r = "who" -> WhoUnavailable
      [] r = "slots" -> SlotsUnavailable

\* The fixed strings of a fetcher: its "unavailable" and its "no items".
C4_FixedReplies(r) ==
    CASE r = "covid" -> {CovidUnavailable}
      [] r = "who" -> {WhoUnavailable, WhoNoItems}
      [] r = "slots" -> {SlotsUnavailable, SlotsNone}

\* The GET raised, gave another status than 200, or a body that does not parse.
C4_Failed(rs) ==
    \/ rs.err # "none"
    \/ rs.status # 200
    \/ rs.body.shape \in {"notjson", "notxml"}

\* The body parsed, to something the fetcher's template cannot be filled from.
C4_Misshapen(r, rs) ==
    \/ rs.body.shape \in {"list", "nochannel"}
    \/ r = "covid" /\ rs.body.fields[4] \in {"text", "huge"}
    \/ r = "slots" /\ rs.body.fields[1] \in {Absent, "null", "text"}
    \/ r = "slots" /\ \E i \in 1..Len(rs.body.items) : i <= SlotLimit /\ rs.body.items[i] = NotADict
    \/ r = "who" /\ \A i \in 1..Len(rs.body.items) : i <= WhoLimit => rs.body.items[i][1] \in {Absent, ""}

\* C4: a fetcher never raises; when the GET fails the reply is the fetcher's
\* fixed "unavailable" string; on a payload of an unexpected shape it is one of
\* the fetcher's fixed strings; a rendered report is given only for status 200
\* and a parsed body.
C4_FetchersFailSafe ==
    rule \in {"covid", "who", "slots"} =>
        /\ pc # "raise"
        /\ pc = "reply" =>
              /\ resp.err \in {"none", "connection", "timeout"}
              /\ C4_Failed(resp) => reply = C4_Unavailable(rule)
              /\ ~C4_Failed(resp) /\ C4_Misshapen(rule, resp) => reply \in C4_FixedReplies(rule)
              /\ reply \notin C4_FixedReplies(rule) =>
                    /\ reply.kind = rule \o "_report"
                    /\ resp.err = "none" /\ resp.status = 200
                    /\ resp.body.shape \in {"object", "channel"}
                    /\ ~C4_Misshapen(rule, resp)

C4_Witness ==
    /\ pc = "reply"
    /\ rule = "covid"
    /\ resp.err = "none" /\ resp.status = 500 /\ resp.body = CovidFull
    /\ reply = CovidUnavailable

\* ------------------------------------------------------------------- C8
\* C8: serving a request issues at most one outbound GET, and none when the
\* request is resolved by the empty-input, greeting, usage-hint, FAQ or
\* apology rule.
C8_AtMostOneGet ==
    /\ gets <= 1
    /\ rule \in {"empty", "greeting", "hint", "faq", "apology"} => gets = 0
    /\ pc = "reply" /\ rule \in {"covid", "who", "slots"} => gets = 1

\* A message that triggers two fetching rules, answered after one GET.
C8_Witness ==
    /\ pc = "reply"
    /\ rule = "covid"
    /\ WhoTrigger(TextOf(msg))
    /\ gets = 1

\* ------------------------------------------------------------------ C10
\* The branch and reply a message gets when it is the first request served
\* after loading the source, given the response of the outbound GET.
C10_FirstRequest(file, m, rs) ==
    LET qs == QuestionsOf(load_faq(file))
        as == AnswersOf(load_faq(file))
        rt == Route(m)
    IN  CASE rt = "empty" -> {<<"empty", PromptReply>>}
          [] rt = "greeting" -> {<<"greeting", GreetingReply(g)>> : g \in GREET_OUT}
          [] rt = "covid" -> {<<"covid", get_covid_update_india(rs)>>}
          [] rt = "who" -> {<<"who", get_who_outbreak_headlines(rs)>>}
          [] rt = "slots" ->
                {<<"slots", get_cowin_slots_by_pin(ReSearch(TextOf(m), PinPattern),
                                                   ReSearch(TextOf(m), DatePattern), rs)>>}
          [] rt = "hint" -> {<<"hint", HintReply>>}
          [] rt = "faq" ->
                {IF o.status = "answer" /\ o.text # <<>>
                 THEN <<"faq", FaqReply(o.text)>>
                 ELSE <<"apology", ApologyReply>> :
                    o \in {x \in faq_response(qs, as, TextOf(m), DefaultThreshold) :
                              x.status # "raise"}}
          [] OTHER -> {}

\* C10: the corpus stays what load_faq made of the source, whatever requests
\* were served, and a message's branch and reply are those it would get as the
\* first request.
C10_Stateless ==
    /\ pc # "boot" =>
          /\ faq_pairs = load_faq(faq_file)
          /\ questions = QuestionsOf(load_faq(faq_file))
          /\ answers = AnswersOf(load_faq(faq_file))
    /\ pc = "reply" => <<rule, reply>> \in C10_FirstRequest(faq_file, msg, resp)

\* An FAQ answer given after other requests were served.
C10_Witness ==
    /\ pc = "reply"
    /\ served >= 1
    /\ rule = "faq"
    /\ reply.text # <<>>

====
